---- MODULE Spec2Model ----
(***************************************************************************)
(* Model of dblp-rs (src/src/lib.rs): the three search operations, the     *)
(* hit-list extraction process_hits, the derived serde deserialisers of    *)
(* Publication, Author and Venue, and the four hand-written visitors for   *)
(* the single-or-many fields.                                              *)
(*                                                                         *)
(* JSON values (serde_json::Value) are tagged records:                     *)
(*   [t |-> "null"], [t |-> "num", n |-> 0], [t |-> "str", s |-> "a"],     *)
(*   [t |-> "arr", a |-> <<...>>], [t |-> "obj", o |-> [key |-> value]].   *)
(* An object is a function from its keys to values; serde_json's default   *)
(* Map is a BTreeMap, so its entries are visited in sorted key order,      *)
(* which KeyOrder lists.                                                   *)
(*                                                                         *)
(* Outcomes of a Rust call: [tag |-> "ok", val |-> v] (Ok(v)),             *)
(* [tag |-> "err", e |-> kind, d |-> detail] (Err(..) returned to the      *)
(* caller) and [tag |-> "panic"] (panic!() or unwrap() on None: the        *)
(* thread unwinds, nothing is returned).                                   *)
(***************************************************************************)
EXTENDS Integers, Sequences, FiniteSets, TLC

VARIABLES kind, response, pc, hits, result, calls, branch

vars == <<kind, response, pc, hits, result, calls, branch>>

\* ------------------------------------------------------------------ bounds
\* Longest `hit` array drawn from the core fragments.
MaxHits == 2
\* Longest array inside a single-or-many field.
MaxElems == 2

\* ------------------------------------------------------------- JSON values
Null == [t |-> "null"]
Num(n) == [t |-> "num", n |-> n]
Str(s) == [t |-> "str", s |-> s]
Arr(q) == [t |-> "arr", a |-> q]
Obj(f) == [t |-> "obj", o |-> f]

\* A key that the document does not hold (used only to build inputs).
Absent == [t |-> "absent"]

EmptyMap == [k \in {} |-> Null]

\* The object holding the entries of f whose value is not Absent.
Prune(f) == Obj([k \in {x \in DOMAIN f : f[x] # Absent} |-> f[k]])

\* Every key of the model's documents, in the byte order of a BTreeMap.
KeyOrder ==
  << "@total", "@type", "access", "acronym", "alias", "aliases", "author",
     "authors", "doi", "ee", "hit", "hits", "info", "key", "note", "notes",
     "number", "pages", "publisher", "result", "text", "title", "type",
     "url", "venue", "volume", "year" >>

KeyRank(k) == CHOOSE i \in 1..Len(KeyOrder) : KeyOrder[i] = k

\* The first key of a non-empty map in iteration order.
FirstKey(o) == CHOOSE k \in DOMAIN o : \A x \in DOMAIN o : KeyRank(k) <= KeyRank(x)

\* serde_json: impl Index<&str> for Value: Null unless an object holding k.
Index(v, k) == IF v.t = "obj" /\ k \in DOMAIN v.o THEN v.o[k] ELSE Null

\* Value::as_str(): Some for a JSON string, None otherwise.
IsStr(v) == v.t = "str"

\* impl PartialEq<&str> for Value: as_str().map_or(false, |x| x == s).
EqStr(v, s) == IsStr(v) /\ v.s = s

\* ----------------------------------------------------------------- outcomes
Ok(v) == [tag |-> "ok", val |-> v]
Err(e, d) == [tag |-> "err", e |-> e, d |-> d]
Panic == [tag |-> "panic"]

\* Option<String>
None == <<>>
Some(s) == <<s>>

\* ------------------------------------------- serde_json's Value deserializer
\* visit_object / visit_array of serde_json: after the visitor returned Ok,
\* entries the visitor left unread turn the result into invalid_length.
VisitObject(o, r) ==
  IF r.tag = "ok" /\ Cardinality(DOMAIN o) > 1
    THEN Err("invalid_length", "fewer elements in map")
    ELSE r

\* Value::deserialize_any on a shape whose visit_* method the visitor does
\* not define: serde's default method, Err(invalid_type(.., &expecting)).
InvalidType(expecting) == Err("invalid_type", expecting)

\* ------------------------------------------------ the hand-written visitors
\* JsonVisitor::visit_map of deserialise_author_in_publication.
AuthorVisitMap(o) ==
  IF DOMAIN o = {} THEN Err("custom", "value is missing")
  ELSE LET entry == o[FirstKey(o)] IN
    CASE entry.t = "arr" ->
           IF \A i \in 1..Len(entry.a) : IsStr(Index(entry.a[i], "text"))
             THEN Ok([i \in 1..Len(entry.a) |-> Index(entry.a[i], "text").s])
             ELSE Panic
      [] entry.t = "obj" ->
           IF IsStr(Index(entry, "text"))
             THEN Ok(<<Index(entry, "text").s>>)
             ELSE Panic
      [] OTHER -> Panic

deserialise_author_in_publication(v) ==
  IF v.t = "obj" THEN VisitObject(v.o, AuthorVisitMap(v.o))
  ELSE InvalidType("authors")

\* The number of leading JSON strings of the array a.
RECURSIVE LeadingStrings(_)
LeadingStrings(a) ==
  IF a = <<>> \/ ~IsStr(Head(a)) THEN 0 ELSE 1 + LeadingStrings(Tail(a))

\* JsonVisitor::visit_seq of deserialise_venue_in_publication: the loop runs
\* while next_element() yields Some(Value::String(_)); the element that ends
\* it has been read. Returns the venues and the number of elements read.
VenueVisitSeq(a) ==
  LET n == LeadingStrings(a) IN
  [val  |-> [i \in 1..n |-> a[i].s],
   read |-> IF n < Len(a) THEN n + 1 ELSE n]

\* The venue visitor without its visit_str method.
deserialise_venue_without_visit_str(v) ==
  CASE v.t = "arr" ->
         LET r == VenueVisitSeq(v.a) IN
         IF r.read = Len(v.a) THEN Ok(r.val)
         ELSE Err("invalid_length", "fewer elements in array")
    [] OTHER -> InvalidType("venues")

deserialise_venue_in_publication(v) ==
  CASE v.t = "str" -> Ok(<<v.s>>)
    [] v.t = "arr" ->
         LET r == VenueVisitSeq(v.a) IN
         IF r.read = Len(v.a) THEN Ok(r.val)
         ELSE Err("invalid_length", "fewer elements in array")
    [] OTHER -> InvalidType("venues")

\* One note: (v["@type"].as_str().unwrap(), v["text"].as_str().unwrap()).
NoteOk(v) == IsStr(Index(v, "@type")) /\ IsStr(Index(v, "text"))
NotePair(v) == <<Index(v, "@type").s, Index(v, "text").s>>

\* JsonVisitor::visit_map of deserialise_notes_in_author.
NotesVisitMap(o) ==
  IF DOMAIN o = {} THEN Err("custom", "value is missing")
  ELSE LET entry == o[FirstKey(o)] IN
    CASE entry.t = "arr" ->
           IF \A i \in 1..Len(entry.a) : NoteOk(entry.a[i])
             THEN Ok([i \in 1..Len(entry.a) |-> NotePair(entry.a[i])])
             ELSE Panic
      [] entry.t = "obj" ->
           IF NoteOk(entry) THEN Ok(<<NotePair(entry)>>) ELSE Panic
      [] OTHER -> Panic

deserialise_notes_in_author(v) ==
  IF v.t = "obj" THEN VisitObject(v.o, NotesVisitMap(v.o))
  ELSE InvalidType("notes")

\* JsonVisitor::visit_map of deserialise_aliases_in_author.
AliasesVisitMap(o) ==
  IF DOMAIN o = {} THEN Err("custom", "value is missing")
  ELSE LET entry == o[FirstKey(o)] IN
    CASE entry.t = "arr" ->
           IF \A i \in 1..Len(entry.a) : IsStr(entry.a[i])
             THEN Ok([i \in 1..Len(entry.a) |-> entry.a[i].s])
             ELSE Panic
      [] entry.t = "str" -> Ok(<<entry.s>>)
      [] OTHER -> Panic

deserialise_aliases_in_author(v) ==
  CASE v.t = "obj" -> VisitObject(v.o, AliasesVisitMap(v.o))
    [] v.t = "str" -> Ok(<<v.s>>)
    [] OTHER -> InvalidType("aliases")

\* ------------------------------------------------------ the derived structs
\* Each field: its JSON key, how it is deserialised, and whether an absent
\* key is an error ("required"), None ("option") or Default::default()
\* ("default").
Field(name, de, missing) == [name |-> name, de |-> de, missing |-> missing]

Publication ==
  << Field("authors", "authors", "required"),
     Field("title", "String", "required"),
     Field("venue", "venue", "required"),
     Field("year", "String", "required"),
     Field("type", "String", "required"),
     Field("key", "String", "required"),
     Field("ee", "String", "required"),
     Field("url", "String", "required"),
     Field("access", "Option", "option"),
     Field("publisher", "Option", "option"),
     Field("doi", "Option", "option"),
     Field("pages", "Option", "option"),
     Field("volume", "Option", "option"),
     Field("number", "Option", "option") >>

Author ==
  << Field("author", "String", "required"),
     Field("url", "String", "required"),
     Field("notes", "notes", "default"),
     Field("aliases", "aliases", "default") >>

Venue ==
  << Field("venue", "String", "required"),
     Field("acronym", "Option", "option"),
     Field("type", "String", "required"),
     Field("url", "String", "required") >>

Fields(k) ==
  CASE k = "Publication" -> Publication
    [] k = "Author" -> Author
    [] k = "Venue" -> Venue

FieldNames(fields) == {fields[j].name : j \in 1..Len(fields)}
FieldOf(fields, name) == fields[CHOOSE j \in 1..Len(fields) : fields[j].name = name]

\* The value of one field from its JSON value.
DeField(de, v) ==
  CASE de = "String" -> IF IsStr(v) THEN Ok(v.s) ELSE InvalidType("a string")
    [] de = "Option" ->
         IF v.t = "null" THEN Ok(None)
         ELSE IF IsStr(v) THEN Ok(Some(v.s))
         ELSE InvalidType("a string")
    [] de = "authors" -> deserialise_author_in_publication(v)
    [] de = "venue" -> deserialise_venue_in_publication(v)
    [] de = "notes" -> deserialise_notes_in_author(v)
    [] de = "aliases" -> deserialise_aliases_in_author(v)

\* Every absent field filled in with its type's default value.
MissingField_all_default(fd) ==
  CASE fd.de = "String" -> Ok("")
    [] fd.de = "Option" -> Ok(None)
    [] OTHER -> Ok(<<>>)

\* The value of a field whose key the map does not hold.
MissingField(fd) ==
  CASE fd.missing = "required" -> Err("missing_field", fd.name)
    [] fd.missing = "option" -> Ok(None)
    [] fd.missing = "default" -> Ok(<<>>)

\* After the key loop of the derived visit_map: the fields in declaration
\* order, each absent one filled in or reported.
RECURSIVE FillMissing(_, _, _)
FillMissing(fields, j, acc) ==
  IF j > Len(fields) THEN Ok(acc)
  ELSE LET fd == fields[j] IN
    IF fd.name \in DOMAIN acc THEN FillMissing(fields, j + 1, acc)
    ELSE LET r == MissingField(fd) IN
      IF r.tag # "ok" THEN r
      ELSE FillMissing(fields, j + 1, acc @@ (fd.name :> r.val))

\* The key loop of the derived visit_map: the map's entries in iteration
\* order; an unknown key is skipped, the first field that does not
\* deserialise ends the call.
RECURSIVE StructVisitMap(_, _, _, _)
StructVisitMap(fields, o, i, acc) ==
  IF i > Len(KeyOrder) THEN FillMissing(fields, 1, acc)
  ELSE LET k == KeyOrder[i] IN
    IF k \notin DOMAIN o \/ k \notin FieldNames(fields)
      THEN StructVisitMap(fields, o, i + 1, acc)
    ELSE LET r == DeField(FieldOf(fields, k).de, o[k]) IN
      IF r.tag # "ok" THEN r
      ELSE StructVisitMap(fields, o, i + 1, acc @@ (k :> r.val))

\* The value of the j-th field when the sequence has ended before it.
MissingInSeq(fd) ==
  IF fd.missing = "default" THEN Ok(<<>>)
  ELSE Err("invalid_length", "struct")

\* The derived visit_seq: the fields in declaration order, one element each.
RECURSIVE StructVisitSeq(_, _, _, _)
StructVisitSeq(fields, a, j, acc) ==
  IF j > Len(fields)
    THEN IF Len(a) > Len(fields)
           THEN Err("invalid_length", "fewer elements in array")
           ELSE Ok(acc)
  ELSE LET fd == fields[j]
           r == IF j <= Len(a) THEN DeField(fd.de, a[j]) ELSE MissingInSeq(fd)
       IN IF r.tag # "ok" THEN r
          ELSE StructVisitSeq(fields, a, j + 1, acc @@ (fd.name :> r.val))

\* serde_json::from_value::<T>(v) for T the struct of kind k.
from_value(k, v) ==
  CASE v.t = "obj" -> StructVisitMap(Fields(k), v.o, 1, EmptyMap)
    [] v.t = "arr" -> StructVisitSeq(Fields(k), v.a, 1, EmptyMap)
    [] OTHER -> InvalidType("struct")

\* ------------------------------------------------------------- process_hits
\* Collect with each record put in front of the ones before it.
RECURSIVE Collect_reversed(_, _, _, _)
Collect_reversed(k, a, i, acc) ==
  IF i > Len(a) THEN [res |-> Ok(acc), calls |-> i - 1, branch |-> "array"]
  ELSE LET r == from_value(k, Index(a[i], "info")) IN
    IF r.tag = "ok" THEN Collect_reversed(k, a, i + 1, <<r.val>> \o acc)
    ELSE [res |-> r, calls |-> i, branch |-> "array"]

\* values_json.iter().map(from_value(v["info"])).collect::<Result<Vec,_>>():
\* the iterator is lazy and collect stops at the first Err; a panic unwinds
\* through it. calls counts the calls of from_value made.
RECURSIVE Collect(_, _, _, _)
Collect(k, a, i, acc) ==
  IF i > Len(a) THEN [res |-> Ok(acc), calls |-> i - 1, branch |-> "array"]
  ELSE LET r == from_value(k, Index(a[i], "info")) IN
    IF r.tag = "ok" THEN Collect(k, a, i + 1, Append(acc, r.val))
    ELSE [res |-> r, calls |-> i, branch |-> "array"]

\* The test of line 30 made on the number the total denotes.
IsZeroTotal_numeric(h) ==
  LET t == Index(h, "@total") IN
  \/ t.t = "num" /\ t.n = 0
  \/ t.t = "str" /\ t.s \in {"0", "00", "0.0"}

\* The test of line 30.
IsZeroTotal(h) == EqStr(Index(h, "@total"), "0")

\* process_hits with the `hit` array looked at before "@total".
process_hits_hit_first(k, h) ==
  IF Index(h, "hit").t = "arr" THEN Collect(k, Index(h, "hit").a, 1, <<>>)
  ELSE IF IsZeroTotal(h) THEN [res |-> Ok(<<>>), calls |-> 0, branch |-> "zero"]
  ELSE [res |-> Panic, calls |-> 0, branch |-> "else"]

\* branch names the arm of the if taken: "zero" (line 31), "array" (lines
\* 33-40) or "else" (line 43).
process_hits(k, h) ==
  IF IsZeroTotal(h) THEN [res |-> Ok(<<>>), calls |-> 0, branch |-> "zero"]
  ELSE IF Index(h, "hit").t = "arr" THEN Collect(k, Index(h, "hit").a, 1, <<>>)
  ELSE [res |-> Panic, calls |-> 0, branch |-> "else"]

\* make_request: the response body, or the transport's error; Ok carries
\* result["result"]["hits"].
make_request(resp) ==
  IF resp.tag = "ok" THEN Ok(Index(Index(resp.val, "result"), "hits"))
  ELSE resp

\* ------------------------------------------------------------------- inputs
\* The response bodies the model draws: documents of the three result
\* shapes and their malformed variants.
Names == {"a", "b"}

\* All sequences over S of length at most n.
RECURSIVE SeqsUpTo(_, _)
SeqsUpTo(S, n) ==
  IF n = 0 THEN {<<>>}
  ELSE LET shorter == SeqsUpTo(S, n - 1) IN
       shorter \cup {Append(q, x) : q \in {r \in shorter : Len(r) = n - 1}, x \in S}

Arrays(S, n) == {Arr(q) : q \in SeqsUpTo(S, n)}

AuthorObj(n) == Obj("text" :> Str(n))
AuthorElems == {AuthorObj(n) : n \in Names} \cup {Obj(EmptyMap)}
AuthorEntries == Arrays(AuthorElems, MaxElems) \cup AuthorElems \cup {Str("a"), Null}
AuthorsShapes ==
  {Absent, Null, Str("a"), Obj(EmptyMap)}
    \cup {Obj("author" :> e) : e \in AuthorEntries}
    \cup {Obj(("author" :> AuthorObj("a")) @@ ("text" :> Str("b")))}

VenueElems == {Str(n) : n \in Names} \cup {Null, Obj(EmptyMap)}
VenueShapes ==
  {Absent, Null, Num(1), Obj("text" :> Str("a"))}
    \cup {Str(n) : n \in Names}
    \cup Arrays(VenueElems, MaxElems)

NoteObj(ty, tx) == Prune(("@type" :> ty) @@ ("text" :> tx))
NoteElems ==
  {NoteObj(Str(n), Str(n)) : n \in Names}
    \cup {NoteObj(Str("a"), Absent), NoteObj(Absent, Str("a"))}
NoteEntries == Arrays(NoteElems, MaxElems) \cup NoteElems \cup {Str("a"), Null}
NotesShapes ==
  {Absent, Null, Str("a"), Obj(EmptyMap)}
    \cup {Obj("note" :> e) : e \in NoteEntries}

AliasElems == {Str(n) : n \in Names} \cup {Null}
AliasEntries ==
  Arrays(AliasElems, MaxElems) \cup AliasElems \cup {Obj("text" :> Str("a"))}
AliasesShapes ==
  {Absent, Null, Num(1), Arr(<<Str("a")>>), Obj(EmptyMap)}
    \cup {Str(n) : n \in Names}
    \cup {Obj("alias" :> e) : e \in AliasEntries}

ScalarShapes == {Absent, Null, Num(1), Str("b")}

\* A fragment with every field present and well formed.
Base(k) ==
  CASE k = "Publication" ->
         [j \in FieldNames(Publication) |->
            CASE j = "authors" -> Obj("author" :> AuthorObj("a"))
              [] j = "venue" -> Str("a")
              [] OTHER -> Str("a")]
    [] k = "Author" ->
         [j \in FieldNames(Author) |->
            CASE j = "notes" -> Obj("note" :> NoteObj(Str("a"), Str("a")))
              [] j = "aliases" -> Obj("alias" :> Str("a"))
              [] OTHER -> Str("a")]
    [] k = "Venue" -> [j \in FieldNames(Venue) |-> Str("a")]

ScalarNames(k) == {j \in FieldNames(Fields(k)) : FieldOf(Fields(k), j).de \in {"String", "Option"}}

\* Base(k) with up to two scalar fields replaced.
ScalarVariants(k) ==
  {Prune([Base(k) EXCEPT ![f] = s, ![g] = Absent]) :
     f \in ScalarNames(k), g \in ScalarNames(k), s \in ScalarShapes}
    \cup {Prune([Base(k) EXCEPT ![f] = s]) : f \in ScalarNames(k), s \in ScalarShapes}

\* The fragments (`info` objects) of each kind.
Frags(k) ==
  CASE k = "Publication" ->
         {Prune([Base(k) EXCEPT !["authors"] = au, !["venue"] = ve, !["title"] = ti]) :
            au \in AuthorsShapes, ve \in VenueShapes, ti \in {Absent, Str("a")}}
           \cup ScalarVariants(k)
    [] k = "Author" ->
         {Prune([Base(k) EXCEPT !["notes"] = no, !["aliases"] = al]) :
            no \in NotesShapes, al \in AliasesShapes}
           \cup ScalarVariants(k)
    [] k = "Venue" ->
         {Prune([j \in FieldNames(Venue) |-> f[j]]) :
            f \in [FieldNames(Venue) -> ScalarShapes \cup {Str("a")}]}

\* A few fragments of each kind for the longer hit arrays: two that
\* deserialise, and ones that do not.
CoreFrags(k) ==
  CASE k = "Publication" ->
         { Prune(Base(k)),
           Prune([Base(k) EXCEPT
                    !["authors"] = Obj("author" :> Arr(<<AuthorObj("a"), AuthorObj("b")>>)),
                    !["venue"] = Arr(<<Str("a"), Str("b")>>),
                    !["doi"] = Absent]),
           Prune([Base(k) EXCEPT !["title"] = Absent]),
           Prune([Base(k) EXCEPT !["venue"] = Null]),
           Prune([Base(k) EXCEPT !["authors"] = Obj("author" :> Str("a"))]) }
    [] k = "Author" ->
         { Prune(Base(k)),
           Prune([Base(k) EXCEPT !["notes"] = Absent, !["aliases"] = Str("b")]),
           Prune([Base(k) EXCEPT !["author"] = Absent]),
           Prune([Base(k) EXCEPT !["url"] = Num(1)]),
           Prune([Base(k) EXCEPT !["notes"] = Obj("note" :> Null)]) }
    [] k = "Venue" ->
         { Prune(Base(k)),
           Prune([Base(k) EXCEPT !["venue"] = Str("b"), !["acronym"] = Absent]),
           Prune([Base(k) EXCEPT !["url"] = Absent]),
           Prune([Base(k) EXCEPT !["type"] = Null]) }

Hit(info) == Prune("info" :> info)

\* The values of `hit`.
HitShapes(k) ==
  {Absent, Null, Str("a"), Hit(Prune(Base(k)))}
    \cup Arrays({Hit(f) : f \in CoreFrags(k) \cup {Absent}}, MaxHits)
    \cup {Arr(<<Hit(f)>>) : f \in Frags(k) \cup {Str("a"), Arr(<<>>)}}

\* The values of "@total".
Totals == {Absent, Null, Num(0), Str("0"), Str("00"), Str("0.0"), Str("1")}

HitsObj(total, hit) == Prune(("@total" :> total) @@ ("hit" :> hit))

Envelope(h) == Obj("result" :> Obj("hits" :> h))

\* Every "@total" with the short values of `hit`; the wide range of single
\* fragments under a zero and a non-zero "@total".
HitsValues(k) ==
  {HitsObj(t, h) : t \in Totals,
                     h \in {x \in HitShapes(k) : x.t # "arr" \/ Len(x.a) # 1}}
    \cup {HitsObj(t, h) : t \in {Str("0"), Str("1")},
                            h \in {x \in HitShapes(k) : x.t = "arr" /\ Len(x.a) = 1}}
    \cup {Null, Str("0")}

Responses(k) ==
  {Ok(Envelope(h)) : h \in HitsValues(k)}
    \cup {Ok(Null), Ok(Obj(EmptyMap)), Err("transport", "reqwest")}

Kinds == {"Publication", "Author", "Venue"}

\* --------------------------------------------------------------- the system
NoResult == [tag |-> "none"]

Init ==
  /\ kind \in Kinds
  /\ response \in Responses(kind)
  /\ pc = "start"
  /\ hits = Null
  /\ result = NoResult
  /\ calls = 0
  /\ branch = "none"

\* search_publication / search_author / search_venue: make_request(..)?,
\* then process_hits(hits)?.
Search(k) ==
  /\ pc = "start"
  /\ kind = k
  /\ LET h == make_request(response) IN
       IF h.tag = "err"
         THEN /\ result' = h
              /\ UNCHANGED <<hits, calls, branch>>
              /\ pc' = "done"
         ELSE LET p == process_hits(k, h.val) IN
              /\ hits' = h.val
              /\ result' = p.res
              /\ calls' = p.calls
              /\ branch' = p.branch
              /\ pc' = IF p.res.tag = "panic" THEN "aborted" ELSE "done"
  /\ UNCHANGED <<kind, response>>

search_publication == Search("Publication")

search_author == Search("Author")

search_venue == Search("Venue")

Next == search_publication \/ search_author \/ search_venue

Spec == Init /\ [][Next]_vars

\* ------------------------------------------------------------------- claims
\* process_hits has run on the hits the transport returned.
Ran == pc # "start" /\ response.tag = "ok"

Total == Index(hits, "@total")
HitValue == Index(hits, "hit")
ZeroTotal == Total.t = "str" /\ Total.s = "0"
HitIsArray == HitValue.t = "arr"
InfoAt(i) == Index(HitValue.a[i], "info")

\* C1: whenever "@total" is the JSON string "0", process_hits returns Ok of
\* the empty sequence, whatever `hit` is (absent, an array, another shape).
C1_ZeroTotalIsEmptyOk ==
  (Ran /\ ZeroTotal) => result = Ok(<<>>)

\* A zero total over a `hit` array whose entry would not deserialise.
C1_Witness ==
  /\ Ran /\ ZeroTotal /\ HitIsArray
  /\ Len(HitValue.a) >= 1
  /\ from_value(kind, InfoAt(1)).tag # "ok"
  /\ result = Ok(<<>>)

\* C2: when "@total" is not "0" and every entry of the `hit` array
\* deserialises, process_hits returns exactly one record per entry, the
\* i-th being the record of the i-th entry's `info`.
C2_AllRecordsInOrder ==
  (/\ Ran /\ ~ZeroTotal /\ HitIsArray
   /\ \A i \in 1..Len(HitValue.a) : from_value(kind, InfoAt(i)).tag = "ok")
  => /\ result.tag = "ok"
     /\ Len(result.val) = Len(HitValue.a)
     /\ \A i \in 1..Len(HitValue.a) : result.val[i] = from_value(kind, InfoAt(i)).val

\* Two different fragments, returned as two different records in order.
C2_Witness ==
  /\ Ran /\ ~ZeroTotal /\ HitIsArray
  /\ Len(HitValue.a) = 2
  /\ InfoAt(1) # InfoAt(2)
  /\ result.tag = "ok"
  /\ Len(result.val) = 2
  /\ result.val[1] # result.val[2]

\* C3: when "@total" is not "0" and `hit` is not an array, the caller gets
\* an error value (never an empty result, never an abort).
C3_NonArrayHitIsError ==
  (Ran /\ hits.t = "obj" /\ ~ZeroTotal /\ ~HitIsArray) => result.tag = "err"

\* C9: the zero branch is taken exactly when "@total" is the JSON string
\* "0"; a numeric 0, "00", "0.0", null and an absent total go on to the
\* test of `hit`, and to the array branch when `hit` is an array.
C9_ZeroTestIsStringComparison ==
  Ran =>
    /\ (branch = "zero") <=> ZeroTotal
    /\ (Total.t = "num" \/ Total.t = "null"
          \/ (Total.t = "str" /\ Total.s \in {"00", "0.0"}))
       => branch = (IF HitIsArray THEN "array" ELSE "else")

\* A numeric 0 total whose hits were deserialised.
C9_Witness ==
  /\ Ran
  /\ Total.t = "num" /\ Total.n = 0
  /\ branch = "array"
  /\ result.tag = "ok"
  /\ Len(result.val) >= 1

\* The hits hold one entry, whose `info` is the fragment f, under a non-zero
\* total, and process_hits has run on them.
SingleFrag(f) == Ran /\ hits = HitsObj(Str("1"), Arr(<<Hit(f)>>))

\* The record Base(k) stands for.
BaseRecord(k) ==
  [j \in FieldNames(Fields(k)) |->
     CASE j = "notes" -> << <<"a", "a">> >>
       [] j \in {"authors", "venue", "aliases"} /\ k # "Venue" -> <<"a">>
       [] FieldOf(Fields(k), j).de = "Option" -> Some("a")
       [] OTHER -> "a"]

With(k, f, x) == Prune([Base(k) EXCEPT ![f] = x])

\* The single-or-many fields of each kind.
PolyFields(k) ==
  CASE k = "Publication" -> {"authors", "venue"}
    [] k = "Author" -> {"notes", "aliases"}
    [] k = "Venue" -> {}

\* The encodings of the one value n in the field f: a one-element array, and
\* the bare object (authors, notes) or bare string (venue, aliases). In
\* authors, notes and aliases the API wraps the entry in an object of one
\* key; aliases is also read from a bare string in place of the wrapper.
Card1Encodings(f, n) ==
  CASE f = "authors" ->
         {Obj("author" :> Arr(<<AuthorObj(n)>>)), Obj("author" :> AuthorObj(n))}
    [] f = "venue" -> {Arr(<<Str(n)>>), Str(n)}
    [] f = "notes" ->
         {Obj("note" :> Arr(<<NoteObj(Str(n), Str(n))>>)),
          Obj("note" :> NoteObj(Str(n), Str(n)))}
    [] f = "aliases" ->
         {Obj("alias" :> Arr(<<Str(n)>>)), Obj("alias" :> Str(n)), Str(n)}

Card1Value(f, n) == IF f = "notes" THEN << <<n, n>> >> ELSE <<n>>

\* C4: for each single-or-many field, every cardinality-1 encoding of the
\* same value (one-element array, bare object, bare string) gives the same
\* record, whose field is the one-element sequence of that value.
C4_Card1ShapeInvariance ==
  \A f \in PolyFields(kind), n \in Names :
    \A enc \in Card1Encodings(f, n) :
      SingleFrag(With(kind, f, enc))
        => result = Ok(<<[BaseRecord(kind) EXCEPT ![f] = Card1Value(f, n)]>>)

\* A lone venue given as a bare string, returned as a one-element sequence.
C4_Witness ==
  /\ kind = "Publication"
  /\ SingleFrag(With(kind, "venue", Str("b")))
  /\ result.tag = "ok"
  /\ result.val[1]["venue"] = <<"b">>

\* C5: for each single-or-many field, a fragment without that field gives a
\* record whose field is the empty sequence.
C5_AbsentIsEmptySequence ==
  \A f \in PolyFields(kind) :
    SingleFrag(With(kind, f, Absent))
      => result = Ok(<<[BaseRecord(kind) EXCEPT ![f] = <<>>]>>)

OptionalNames(k) == {j \in FieldNames(Fields(k)) : FieldOf(Fields(k), j).missing = "option"}
RequiredNames(k) == {j \in FieldNames(Fields(k)) : FieldOf(Fields(k), j).missing = "required"}

\* The required fields the object v does not hold.
MissingRequired(k, v) == RequiredNames(k) \ DOMAIN v.o

\* The first of them in declaration order.
FirstMissingRequired(k, v) ==
  LET j == CHOOSE x \in 1..Len(Fields(k)) :
             /\ Fields(k)[x].name \in MissingRequired(k, v)
             /\ \A y \in 1..(x - 1) : Fields(k)[y].name \notin MissingRequired(k, v)
  IN Fields(k)[j].name

\* Every field the object v holds deserialises.
PresentFieldsOk(k, v) ==
  \A j \in DOMAIN v.o \cap FieldNames(Fields(k)) :
    DeField(FieldOf(Fields(k), j).de, v.o[j]).tag = "ok"

\* C6: a fragment without an optional field gives the record with that field
\* None; a fragment without a required field, its other fields well formed,
\* gives the error missing_field naming the (first) missing field; and no
\* record is returned for an entry that lacks a required field.
C6_FieldPresenceBoundary ==
  /\ \A f \in OptionalNames(kind) :
       SingleFrag(With(kind, f, Absent))
         => result = Ok(<<[BaseRecord(kind) EXCEPT ![f] = None]>>)
  /\ (Ran /\ ~ZeroTotal /\ HitIsArray) =>
       /\ (/\ Len(HitValue.a) = 1
           /\ InfoAt(1).t = "obj"
           /\ PresentFieldsOk(kind, InfoAt(1))
           /\ MissingRequired(kind, InfoAt(1)) # {})
          => result = Err("missing_field", FirstMissingRequired(kind, InfoAt(1)))
       /\ (\E i \in 1..Len(HitValue.a) :
             InfoAt(i).t = "obj" /\ MissingRequired(kind, InfoAt(i)) # {})
          => result.tag # "ok"
       /\ result.tag = "ok"
          => \A i \in 1..Len(result.val) :
               DOMAIN result.val[i] = FieldNames(Fields(kind))

\* A publication without a title, its venue an array: the error names title.
C6_Witness ==
  /\ kind = "Publication"
  /\ Ran /\ ~ZeroTotal /\ HitIsArray
  /\ Len(HitValue.a) = 1
  /\ InfoAt(1).t = "obj"
  /\ MissingRequired(kind, InfoAt(1)) = {"title"}
  /\ Index(InfoAt(1), "venue").t = "arr"
  /\ result = Err("missing_field", "title")

\* C7: deserialising the entries of a `hit` array ends in records or in an
\* error value returned to the caller, never in an abort.
C7_NormalizeNeverAborts ==
  (Ran /\ ~ZeroTotal /\ HitIsArray) => result.tag \in {"ok", "err"}

\* C8: a publication whose venue is an array: a record is returned only if
\* every element is a string, and then holds every element in order.
C8_VenueArrayNoDataLoss ==
  (/\ kind = "Publication"
   /\ Ran /\ ~ZeroTotal /\ HitIsArray
   /\ Len(HitValue.a) = 1
   /\ Index(InfoAt(1), "venue").t = "arr")
  => LET ve == Index(InfoAt(1), "venue").a IN
     /\ (\E i \in 1..Len(ve) : ~IsStr(ve[i])) => result.tag # "ok"
     /\ result.tag = "ok"
        => /\ Len(result.val[1]["venue"]) = Len(ve)
           /\ \A i \in 1..Len(ve) : IsStr(ve[i]) /\ result.val[1]["venue"][i] = ve[i].s

\* The entries of the `hit` array that do not deserialise.
Failing == {i \in 1..Len(HitValue.a) : from_value(kind, InfoAt(i)).tag # "ok"}
FirstFailing == CHOOSE i \in Failing : \A j \in Failing : i <= j

\* C10: when an entry of the `hit` array does not deserialise, process_hits
\* returns an error, the one of the earliest such entry, and no record; the
\* entries after it are not deserialised.
C10_FailFastNoPartialOutput ==
  (Ran /\ ~ZeroTotal /\ HitIsArray /\ Failing # {})
  => /\ result.tag = "err"
     /\ result = from_value(kind, InfoAt(FirstFailing))
     /\ calls = FirstFailing

\* The same when the earliest entry that does not deserialise gives an error
\* value: that error is returned and nothing after the entry is read.
FailFastOnError ==
  (/\ Ran /\ ~ZeroTotal /\ HitIsArray /\ Failing # {}
   /\ from_value(kind, InfoAt(FirstFailing)).tag = "err")
  => /\ result = from_value(kind, InfoAt(FirstFailing))
     /\ calls = FirstFailing

====
